---- MODULE Spec2Model ----
(***************************************************************************)
(* gpt-chess (src/main.py): a game loop that alternates two Player objects *)
(* (Stockfish, OpenAI, Random) over one ChessBoard, a python-chess Board   *)
(* that also keeps algebraic_history.                                      *)
(*                                                                         *)
(* The chess rules are python-chess's, an external library.  They are      *)
(* modelled by a small game with the same interface and the properties the *)
(* script relies on: legal moves depend on the side to move, a move has a  *)
(* coordinate (UCI) text and a different SAN text, pawn moves zero the     *)
(* halfmove clock and are finite in number, the game is over on checkmate, *)
(* stalemate or when the halfmove clock reaches the automatic-draw limit,  *)
(* and parse_san accepts SAN, fully specified coordinate text and the      *)
(* null-move tokens, returning "either a legal or a null move".            *)
(***************************************************************************)
EXTENDS Naturals, Sequences, FiniteSets, TLC

VARIABLES
    pc,                 \* position of the script (module level of main.py)
    board,              \* the ChessBoard: python-chess state incl. move_stack
    algebraic_history,  \* ChessBoard.algebraic_history
    white, black,       \* the two Player objects
    move,               \* the script's variable `move`
    result,             \* what line 374 prints, "none" before
    engine,             \* Stockfish.engine: process state and UCI options
    engineLog,          \* the last engine operations, newest last
    engineStarts,       \* how often popen_uci ran
    engineMisuse,       \* an operation was issued to a closed or unstarted engine
    caller,             \* the player whose get_move is running ("none" outside)
    callBoard,          \* board as it was when get_move was entered
    callHistory,        \* algebraic_history as it was when get_move was entered
    queried,            \* the last two colours asked for a move
    modelCalls,         \* model invocations of the running LLM request, in order
    raised,             \* the last submit_move call raised
    lastText,           \* the argument of the last submit_move call
    prevBoard,          \* board before the last submit_move call
    prevHistory         \* algebraic_history before the last submit_move call

vars == <<pc, board, algebraic_history, white, black, move, result, engine,
          engineLog, engineStarts, engineMisuse, caller, callBoard,
          callHistory, queried, modelCalls, raised,
          lastText, prevBoard, prevHistory>>

---------------------------------------------------------------------------
(* Bounds of the model *)

\* pawn moves each side can make (chess: finitely many pawn moves and captures)
PawnSteps == 1
\* halfmove clock at which the game is drawn automatically (python-chess: 150)
DrawClock == 3
\* submit_move calls explored when the board is driven directly
MaxMoves == 4

---------------------------------------------------------------------------
(* python-chess, as far as main.py uses it *)

WHITE == TRUE
BLACK == FALSE

PawnSquares(color) ==
    IF color = WHITE THEN <<"a2", "a3", "a4", "a5", "a6", "a7">>
                     ELSE <<"h7", "h6", "h5", "h4", "h3", "h2">>

KnightSquares(color) ==
    IF color = WHITE THEN <<"g1", "f3">> ELSE <<"g8", "f6">>

NullUci == "0000"

\* chess.Board(): the starting position, white to move, empty move stack
StartBoard ==
    [turn |-> WHITE,
     pawn |-> [c \in BOOLEAN |-> 0],
     knight |-> [c \in BOOLEAN |-> 1],
     halfmove_clock |-> 0,
     status |-> "ongoing",
     move_stack |-> << >>]

PawnMove(b) ==
    PawnSquares(b.turn)[b.pawn[b.turn] + 1] \o PawnSquares(b.turn)[b.pawn[b.turn] + 2]

KnightMove(b) ==
    KnightSquares(b.turn)[b.knight[b.turn]] \o KnightSquares(b.turn)[3 - b.knight[b.turn]]

MateMove(b) == IF b.turn = WHITE THEN "d1h5" ELSE "d8h4"

StalemateMove(b) == IF b.turn = WHITE THEN "d1g6" ELSE "d8g3"

\* board.generate_legal_moves(), each Move written str(move), its UCI text
generate_legal_moves(b) ==
    IF b.status # "ongoing" THEN {}
    ELSE {KnightMove(b)}
         \cup (IF b.pawn[b.turn] < PawnSteps THEN {PawnMove(b)} ELSE {})
         \cup (IF b.pawn[b.turn] = PawnSteps THEN {MateMove(b)} ELSE {})
         \cup (IF b.pawn[WHITE] = PawnSteps /\ b.pawn[BLACK] = PawnSteps
               THEN {StalemateMove(b)} ELSE {})

\* board.san(move) without the check suffix
SanBase(b, m) ==
    IF m = NullUci THEN "--"
    ELSE IF m = KnightMove(b) THEN "N" \o KnightSquares(b.turn)[3 - b.knight[b.turn]]
    ELSE IF m = MateMove(b) THEN (IF b.turn = WHITE THEN "Qh5" ELSE "Qh4")
    ELSE IF m = StalemateMove(b) THEN (IF b.turn = WHITE THEN "Qg6" ELSE "Qg3")
    ELSE PawnSquares(b.turn)[b.pawn[b.turn] + 2]

\* board.san(move)
san(b, m) ==
    IF m # NullUci /\ m = MateMove(b) THEN SanBase(b, m) \o "#" ELSE SanBase(b, m)

\* board.push(move)
push(b, m) ==
    LET stack == Append(b.move_stack, m)
        flipped == [b EXCEPT !.turn = ~b.turn, !.move_stack = stack]
    IN  IF m = NullUci \/ m = KnightMove(b) \/ m = StalemateMove(b) \/ m = MateMove(b)
        THEN [flipped EXCEPT
                !.halfmove_clock = b.halfmove_clock + 1,
                !.knight[b.turn] = IF m = KnightMove(b) THEN 3 - b.knight[b.turn]
                                   ELSE b.knight[b.turn],
                !.status = IF m = MateMove(b) THEN "checkmate"
                           ELSE IF m = StalemateMove(b) THEN "stalemate"
                           ELSE b.status]
        ELSE [flipped EXCEPT
                !.halfmove_clock = 0,
                !.pawn[b.turn] = b.pawn[b.turn] + 1]

NullTokens == {"--", "Z0", "0000", "@@@@"}

Raise == [ok |-> FALSE, move |-> "none"]

\* board.parse_san(text): the move, or an exception (ok = FALSE)
parse_san(b, text) ==
    IF text \in NullTokens THEN [ok |-> TRUE, move |-> NullUci]
    ELSE LET hits == {m \in generate_legal_moves(b) :
                        text \in {m, san(b, m), SanBase(b, m)}}
         IN  IF hits = {} THEN Raise
             ELSE [ok |-> TRUE, move |-> CHOOSE m \in hits : TRUE]

\* board.is_game_over(): checkmate, stalemate or the automatic draw
is_game_over(b) ==
    \/ b.status # "ongoing"
    \/ (b.halfmove_clock >= DrawClock /\ generate_legal_moves(b) # {})

\* board.result()
board_result(b) ==
    IF b.status = "checkmate" THEN (IF b.turn = BLACK THEN "1-0" ELSE "0-1")
    ELSE IF is_game_over(b) THEN "1/2-1/2"
    ELSE "*"

---------------------------------------------------------------------------
(* ChessBoard *)

\* ChessBoard.waiting_on
waiting_on(b) == IF b.turn THEN "white" ELSE "black"

\* ChessBoard.get_move_history
get_move_history(b) == b.move_stack

\* ChessBoard.submit_move with append and parse in the wrong order
submit_move_append_first(b, hist, text) ==
    LET parsed == parse_san(b, text)
        hist2 == Append(hist, text)
    IN  IF ~parsed.ok
        THEN [board |-> b, algebraic_history |-> hist2, raised |-> TRUE]
        ELSE [board |-> push(b, parsed.move), algebraic_history |-> hist2,
              raised |-> FALSE]

\* ChessBoard.submit_move: parse_san, san, append, push_san
submit_move(b, hist, text) ==
    LET algebraic_move == parse_san(b, text)
    IN  IF ~algebraic_move.ok
        THEN [board |-> b, algebraic_history |-> hist, raised |-> TRUE]
        ELSE LET algebraic == san(b, algebraic_move.move)
                 hist2 == Append(hist, algebraic)
                 pushed == parse_san(b, text)
             IN  IF ~pushed.ok
                 THEN [board |-> b, algebraic_history |-> hist2, raised |-> TRUE]
                 ELSE [board |-> push(b, pushed.move),
                       algebraic_history |-> hist2, raised |-> FALSE]

\* get_possible_moves listing the moves of a board the side to move has
\* already passed on
get_possible_moves_other_side(b) == generate_legal_moves(push(b, NullUci))

\* get_possible_moves
get_possible_moves(b) == generate_legal_moves(b)

---------------------------------------------------------------------------
(* Players *)

WhiteElo == 1320
AltElo == 1750

Stockfish(elo) == [kind |-> "Stockfish", elo |-> elo]
OpenAI == [kind |-> "OpenAI", elo |-> 0]
Random == [kind |-> "Random", elo |-> 0]

\* the players the script constructs: white is Stockfish(1320); black is
\* OpenAI(), or one of the alternatives the script keeps in comments
WhitePlayers == {Stockfish(WhiteElo)}
BlackPlayers == {OpenAI, Random, Stockfish(AltElo)}

\* Stockfish.engine before popen_uci, and what popen_uci returns
NoEngine == [state |-> "none", UCI_LimitStrength |-> FALSE, UCI_Elo |-> 0]
popen_uci == [state |-> "open", UCI_LimitStrength |-> FALSE, UCI_Elo |-> 0]

\* engine.configure(options={name: value})
configure(e, opt) ==
    IF opt.name = "UCI_LimitStrength" THEN [e EXCEPT !.UCI_LimitStrength = opt.value]
    ELSE [e EXCEPT !.UCI_Elo = opt.value]

\* Stockfish._set_elo configuring the rating only
set_elo_rating_only(self) ==
    <<[name |-> "UCI_Elo", value |-> self.elo],
      [name |-> "UCI_Elo", value |-> self.elo]>>

\* Stockfish._set_elo: the two configure calls, in order
set_elo(self) ==
    <<[name |-> "UCI_LimitStrength", value |-> TRUE],
      [name |-> "UCI_Elo", value |-> self.elo]>>

\* engine.close() that leaves the process running
engine_close_missing(e) == e

\* Stockfish.engine.close()
engine_close(e) == [e EXCEPT !.state = "closed"]

\* engine.play(board, limit): the moves the engine may answer with
engine_play(b) == get_possible_moves(b)

\* every text a model, a caller or a player can produce
MoveTexts ==
    UNION {
        {KnightSquares(c)[1] \o KnightSquares(c)[2],
         KnightSquares(c)[2] \o KnightSquares(c)[1],
         "N" \o KnightSquares(c)[1], "N" \o KnightSquares(c)[2]}
        \cup {PawnSquares(c)[k] \o PawnSquares(c)[k + 1] : k \in 1..PawnSteps}
        \cup {PawnSquares(c)[k + 1] : k \in 1..PawnSteps}
        : c \in BOOLEAN}
    \cup {"d1h5", "Qh5#", "Qh5", "d8h4", "Qh4#", "Qh4", "d1g6", "Qg6", "d8g3", "Qg3"}

Garbage == {"", "e9", "a2a3 h7h6", "The best move is Nf3.", "None"}

Texts == MoveTexts \cup NullTokens \cup Garbage

\* a free-form completion used as the move: any text at all
generate_free(choices) == Texts

\* outlines.generate.choice(model, choices)(prompt): one of the choices
generate_choice(choices) == choices

\* OpenAI.get_move calling the generator a second time
openai_calls_twice(calls) == Append(Append(calls, "choice"), "choice")

\* the model invocations OpenAI.get_move adds: one constrained generator call
openai_calls(calls) == Append(calls, "choice")

\* the loop's dispatch with the players swapped
mover_swapped(turn, w, b) == IF turn = "white" THEN "black" ELSE "white"

\* white.get_move(board) if turn == "white" else black.get_move(board)
mover(turn, w, b) == IF turn = "white" THEN "white" ELSE "black"

\* `while board.is_game_over()`: the negation dropped
loop_condition_inverted(b) == is_game_over(b)

\* while not board.is_game_over()
loop_condition(b) == ~is_game_over(b)

\* the results table with the two wins swapped
results_swapped(r) ==
    IF r = "1/2-1/2" THEN "tie"
    ELSE IF r = "1-0" THEN "black_win"
    ELSE IF r = "0-1" THEN "white_win"
    ELSE "KeyError"

\* results[result]
results(r) ==
    IF r = "1/2-1/2" THEN "tie"
    ELSE IF r = "1-0" THEN "white_win"
    ELSE IF r = "0-1" THEN "black_win"
    ELSE "KeyError"

Player(color) == IF color = "white" THEN white ELSE black

LogSize == 3

\* the last LogSize engine operations
Logged(log, entry) ==
    LET all == Append(log, entry)
    IN  IF Len(all) <= LogSize THEN all ELSE SubSeq(all, Len(all) - LogSize + 1, Len(all))

\* the last two colours asked
Asked(q, color) == IF Len(q) < 2 THEN Append(q, color) ELSE <<q[2], color>>

GetMovePcs == {"set_elo_1", "set_elo_2", "play", "openai", "random"}

---------------------------------------------------------------------------
(* The script *)

Init ==
    /\ pc = "popen"
    /\ board = StartBoard
    /\ algebraic_history = << >>
    /\ white = Random
    /\ black = Random
    /\ move = "none"
    /\ result = "none"
    /\ engine = NoEngine
    /\ engineLog = << >>
    /\ engineStarts = 0
    /\ engineMisuse = FALSE
    /\ caller = "none"
    /\ callBoard = StartBoard
    /\ callHistory = << >>
    /\ queried = << >>
    /\ modelCalls = << >>
    /\ raised = FALSE
    /\ lastText = "none"
    /\ prevBoard = StartBoard
    /\ prevHistory = << >>

boardVars == <<board, algebraic_history, raised, lastText, prevBoard, prevHistory>>
engineVars == <<engine, engineLog, engineStarts, engineMisuse>>
callVars == <<caller, callBoard, callHistory, queried, modelCalls>>

\* class Stockfish: engine = chess.engine.SimpleEngine.popen_uci(...)
Popen ==
    /\ pc = "popen"
    /\ engine' = popen_uci
    /\ engineStarts' = engineStarts + 1
    /\ pc' = "setup"
    /\ UNCHANGED <<boardVars, callVars, white, black, move, result, engineLog,
                   engineMisuse>>

\* board = ChessBoard(); white = Stockfish(1320); black = OpenAI()
Setup ==
    /\ pc = "setup"
    /\ board' = StartBoard
    /\ algebraic_history' = << >>
    /\ \E w \in WhitePlayers, b \in BlackPlayers : white' = w /\ black' = b
    /\ pc' = "loop"
    /\ UNCHANGED <<engineVars, callVars, move, result, raised, lastText,
                   prevBoard, prevHistory>>

\* while not board.is_game_over():
LoopTest ==
    /\ pc = "loop"
    /\ pc' = IF loop_condition(board) THEN "dispatch" ELSE "report"
    /\ UNCHANGED <<boardVars, engineVars, callVars, white, black, move, result>>

\* turn = board.waiting_on(); the call of white.get_move or black.get_move
Dispatch ==
    /\ pc = "dispatch"
    /\ LET who == mover(waiting_on(board), white, black)
       IN  /\ caller' = who
           /\ queried' = Asked(queried, who)
           /\ pc' = IF Player(who).kind = "Stockfish" THEN "set_elo_1"
                    ELSE IF Player(who).kind = "OpenAI" THEN "openai"
                    ELSE "random"
    /\ callBoard' = board
    /\ callHistory' = algebraic_history
    /\ modelCalls' = << >>
    /\ UNCHANGED <<boardVars, engineVars, white, black, move, result>>

\* one self.engine.configure(options=...) of Stockfish._set_elo
Configure(at, i, next) ==
    /\ pc = at
    /\ LET opt == set_elo(Player(caller))[i]
       IN  /\ engine' = configure(engine, opt)
           /\ engineLog' = Logged(engineLog,
                                  [op |-> "configure", name |-> opt.name,
                                   value |-> opt.value, by |-> caller])
    /\ engineMisuse' = (engineMisuse \/ engine.state # "open")
    /\ pc' = next
    /\ UNCHANGED <<boardVars, callVars, white, black, move, result, engineStarts>>

SetElo1 == Configure("set_elo_1", 1, "set_elo_2")

SetElo2 == Configure("set_elo_2", 2, "play")

\* result = self.engine.play(board, Limit(time=0.1)); return str(result.move)
Play ==
    /\ pc = "play"
    /\ engineLog' = Logged(engineLog,
                           [op |-> "play", name |-> "none", value |-> engine,
                            by |-> caller])
    /\ engineMisuse' = (engineMisuse \/ engine.state # "open")
    /\ IF engine_play(board) = {}
       THEN move' = "None"
       ELSE \E m \in engine_play(board) : move' = m
    /\ pc' = "submit"
    /\ UNCHANGED <<boardVars, callVars, white, black, result, engine, engineStarts>>

\* OpenAI.get_move: valid_moves, the constrained generator, one call of it
OpenAIGetMove ==
    /\ pc = "openai"
    /\ LET valid_moves == get_possible_moves(board)
       IN  IF valid_moves = {}
           THEN /\ pc' = "aborted"
                /\ UNCHANGED <<move, modelCalls>>
           ELSE /\ \E m \in generate_choice(valid_moves) : move' = m
                /\ modelCalls' = openai_calls(modelCalls)
                /\ pc' = "submit"
    /\ UNCHANGED <<boardVars, engineVars, white, black, result, caller,
                   callBoard, callHistory, queried>>

\* Random.get_move: random.choice(get_possible_moves(board))
RandomGetMove ==
    /\ pc = "random"
    /\ LET legal_moves == get_possible_moves(board)
       IN  IF legal_moves = {}
           THEN /\ pc' = "aborted"
                /\ UNCHANGED move
           ELSE /\ \E m \in legal_moves : move' = m
                /\ pc' = "submit"
    /\ UNCHANGED <<boardVars, engineVars, callVars, white, black, result>>

\* the state after board.submit_move(text)
Submitted(text) ==
    LET r == submit_move(board, algebraic_history, text)
    IN  /\ board' = r.board
        /\ algebraic_history' = r.algebraic_history
        /\ raised' = r.raised
        /\ lastText' = text
        /\ prevBoard' = board
        /\ prevHistory' = algebraic_history

\* board.submit_move(move) in the loop; an exception ends the script
Submit ==
    /\ pc = "submit"
    /\ Submitted(move)
    /\ pc' = IF raised' THEN "aborted" ELSE "loop"
    /\ caller' = "none"
    /\ UNCHANGED <<engineVars, white, black, move, result, callBoard,
                   callHistory, queried, modelCalls>>

\* assert board.is_game_over(); result = board.result(); print(results[result])
Report ==
    /\ pc = "report"
    /\ IF is_game_over(board) /\ results(board_result(board)) # "KeyError"
       THEN /\ result' = results(board_result(board))
            /\ pc' = "close"
       ELSE /\ result' = result
            /\ pc' = "aborted"
    /\ UNCHANGED <<boardVars, engineVars, callVars, white, black, move>>

\* Stockfish.engine.close()
Close ==
    /\ pc = "close"
    /\ engine' = engine_close(engine)
    /\ pc' = "done"
    /\ UNCHANGED <<boardVars, callVars, white, black, move, result, engineLog,
                   engineStarts, engineMisuse>>

Next ==
    \/ Popen
    \/ Setup
    \/ LoopTest
    \/ Dispatch
    \/ SetElo1
    \/ SetElo2
    \/ Play
    \/ OpenAIGetMove
    \/ RandomGetMove
    \/ Submit
    \/ Report
    \/ Close

Spec == Init /\ [][Next]_vars

\* the script is one sequential process: it always takes its next step
FairSpec == Spec /\ WF_vars(Next)

---------------------------------------------------------------------------
(* ChessBoard driven directly: submit_move called with any text *)

InitBoard ==
    /\ pc = "api"
    /\ board = StartBoard
    /\ algebraic_history = << >>
    /\ white = Random
    /\ black = Random
    /\ move = "none"
    /\ result = "none"
    /\ engine = NoEngine
    /\ engineLog = << >>
    /\ engineStarts = 0
    /\ engineMisuse = FALSE
    /\ caller = "none"
    /\ callBoard = StartBoard
    /\ callHistory = << >>
    /\ queried = << >>
    /\ modelCalls = << >>
    /\ raised = FALSE
    /\ lastText = "none"
    /\ prevBoard = StartBoard
    /\ prevHistory = << >>

\* board.submit_move(text) for any text
SubmitAny ==
    /\ pc = "api"
    /\ Len(board.move_stack) < MaxMoves
    /\ \E text \in Texts : Submitted(text)
    /\ UNCHANGED <<pc, engineVars, callVars, white, black, move, result>>

NextBoard == SubmitAny

SpecBoard == InitBoard /\ [][NextBoard]_vars

---------------------------------------------------------------------------
(* Properties *)

InGetMove == pc \in GetMovePcs \cup {"submit"}

LLMReturned == pc = "submit" /\ Player(caller).kind = "OpenAI"

\* text that denotes a legal move of b: its SAN or its coordinates
DenotesLegalMove(b, text) ==
    \E m \in generate_legal_moves(b) : text \in {m, san(b, m), SanBase(b, m)}

Count(seq, x) == Cardinality({i \in 1..Len(seq) : seq[i] = x})

IsPrefix(s, t) == Len(s) <= Len(t) /\ SubSeq(t, 1, Len(s)) = s

\* C1: OpenAI.get_move is only entered with a legal move to choose from (it
\* does not raise) and the move it returns is one of the legal moves of the
\* position it was called with, which is not a finished game.
C1_LLMMoveIsLegal ==
    /\ pc = "openai" => get_possible_moves(board) # {}
    /\ LLMReturned =>
         /\ move \in generate_legal_moves(callBoard)
         /\ ~is_game_over(callBoard)

C1_Witness ==
    /\ LLMReturned
    /\ Cardinality(generate_legal_moves(callBoard)) >= 3
    /\ move \in generate_legal_moves(callBoard)

C3_IllegalTextFails ==
    (lastText # "none" /\ ~DenotesLegalMove(prevBoard, lastText)) =>
        /\ raised
        /\ board = prevBoard
        /\ algebraic_history = prevHistory

\* What does hold of a failing call: nothing changes.
FailureLeavesStateUnchanged ==
    raised => (board = prevBoard /\ algebraic_history = prevHistory)

\* C4: algebraic_history is as long as the move stack, and a submit_move call
\* leaves it as it was (a failing call) or appends exactly one entry.
C4_HistoryMatchesMoveStack ==
    /\ Len(algebraic_history) = Len(board.move_stack)
    /\ IsPrefix(prevHistory, algebraic_history)
    /\ raised => algebraic_history = prevHistory
    /\ (lastText # "none" /\ ~raised) =>
         /\ Len(algebraic_history) = Len(prevHistory) + 1
         /\ Len(board.move_stack) = Len(prevBoard.move_stack) + 1

C4_Witness ==
    /\ raised
    /\ Len(algebraic_history) >= 2
    /\ lastText \in Garbage

\* C5: the player asked is the player of the side to move; the first player
\* asked is white and two players asked in a row differ; back at the loop
\* test exactly the returned move has been applied.
C5_PlayersAlternate ==
    /\ InGetMove => (caller = waiting_on(board) /\ queried[Len(queried)] = caller)
    /\ (queried # << >> /\ Len(callBoard.move_stack) = 0) => queried = <<"white">>
    /\ Len(queried) = 2 => queried[1] # queried[2]
    /\ (pc = "loop" /\ queried # << >>) =>
         /\ ~raised
         /\ board.move_stack = Append(callBoard.move_stack, move)

C5_Witness ==
    /\ pc = "submit"
    /\ queried = <<"black", "white">>
    /\ caller = "white"
    /\ Len(board.move_stack) = 2

\* C6: when the last engine operation is a play by a player, the two
\* operations before it are that player's configure of UCI_LimitStrength to
\* True and of UCI_Elo to its own elo, and the engine ran the query with
\* that configuration.
C6_ConfiguredBeforeEachQuery ==
    (engineLog # << >> /\ engineLog[Len(engineLog)].op = "play") =>
        LET q == engineLog[Len(engineLog)]
            n == Len(engineLog)
        IN  /\ n >= 3
            /\ engineLog[n - 2] = [op |-> "configure", name |-> "UCI_LimitStrength",
                                   value |-> TRUE, by |-> q.by]
            /\ engineLog[n - 1] = [op |-> "configure", name |-> "UCI_Elo",
                                   value |-> Player(q.by).elo, by |-> q.by]
            /\ q.value.UCI_LimitStrength
            /\ q.value.UCI_Elo = Player(q.by).elo

C6_Witness ==
    /\ pc = "submit"
    /\ engineLog[Len(engineLog)].op = "play"
    /\ engineLog[Len(engineLog)].by = "black"
    /\ engineLog[Len(engineLog)].value.UCI_Elo = AltElo
    /\ Len(board.move_stack) >= 3

\* C7: the engine is started once, before the loop; it is open at every
\* step of the loop; it is closed when the script is done, and only then;
\* no configure or play is issued to an engine that is not open.
C7_EngineLifetime ==
    /\ engineStarts <= 1
    /\ pc # "popen" => engineStarts = 1
    /\ pc \in GetMovePcs \cup {"loop", "dispatch", "submit", "report", "close"}
         => engine.state = "open"
    /\ pc = "done" => (engine.state = "closed" /\ is_game_over(board))
    /\ engine.state = "closed" => pc = "done"
    /\ ~engineMisuse

C7_Witness ==
    /\ pc = "done"
    /\ engine.state = "closed"
    /\ Len(engineLog) >= 3
    /\ Len(board.move_stack) >= 2

\* C8: from the entry of a get_move to the submit_move that follows, board
\* and algebraic_history are what they were at the entry, and the move
\* returned is then a legal move that submit_move accepts; board and
\* algebraic_history change in the loop's submit_move only.
C8_GetMoveOnlyReads ==
    /\ [](InGetMove => (board = callBoard /\ algebraic_history = callHistory))
    /\ [](pc = "submit" =>
            /\ move \in generate_legal_moves(board)
            /\ ~submit_move(board, algebraic_history, move).raised)
    /\ [][(board' # board \/ algebraic_history' # algebraic_history)
            => pc = "submit"]_vars

C8_Witness ==
    /\ pc = "submit"
    /\ Player(caller).kind = "Random"
    /\ board = callBoard
    /\ Len(board.move_stack) >= 1
    /\ move \in generate_legal_moves(board)

\* C9: after the loop the game is over; inside the loop body it is not; the
\* reported result is one of the three and is the position's outcome; the
\* script never aborts.
C9_ExitOnlyWhenGameOver ==
    /\ pc \in {"report", "close", "done"} => is_game_over(board)
    /\ pc \in GetMovePcs \cup {"dispatch", "submit"} => ~is_game_over(board)
    /\ pc \in {"close", "done"} =>
         /\ result \in {"white_win", "black_win", "tie"}
         /\ result = "white_win" <=> (board.status = "checkmate" /\ board.turn = BLACK)
         /\ result = "black_win" <=> (board.status = "checkmate" /\ board.turn = WHITE)
         /\ result = "tie" <=> board.status # "checkmate"
    /\ pc # "aborted"

C9_Witness ==
    /\ pc = "done"
    /\ result = "black_win"
    /\ board.status = "checkmate"

\* C10: every run of the script reaches the end with the game over.
C10_GameTerminates == <>(pc = "done" /\ is_game_over(board))

C10_Witness ==
    /\ pc = "done"
    /\ result = "tie"
    /\ board.status = "ongoing"
    /\ board.halfmove_clock >= DrawClock

====
